---- MODULE Spec2Model ----
(***************************************************************************)
(* Model of the "documents" edge function                                  *)
(* (src/supabase/functions/documents/index.ts) over the tables of          *)
(* src/supabase/migrations/20250919000000_documents_schema.sql.            *)
(*                                                                         *)
(* Every handler is cut where it awaits the datastore or the blob store:   *)
(* one action per statement on shared data, together with the local code   *)
(* that leads to it, so that requests served concurrently interleave       *)
(* between their statements as the runtime lets them.                      *)
(* Every call to the datastore or the blob store either succeeds or        *)
(* returns an error (the `error` field the handlers read, or ignore).      *)
(* Row-level policies are not evaluated: the function's datastore client   *)
(* is taken to be allowed every statement the handlers issue.              *)
(***************************************************************************)
EXTENDS Integers, Sequences, FiniteSets, TLC

\* ------------------------------------------------------------------ bounds
MaxDocs == 2        \* document ids the datastore can hand out
MaxBlobs == 1       \* storage keys the blob store hands out to the uploads of a run
NumSlots == 2       \* requests served concurrently
MaxUserIds == 2     \* longest userIds list of an approve request

DocIds == 1..MaxDocs
NoSuchId == 0                  \* an id in a path that no row has or will have
BlobKeys == 1..MaxBlobs
Slots == 1..NumSlots
Users == {"u1", "u2", "u3"}    \* the user ids a path can name
Listable == {"u1", "u2"}       \* the user ids approve requests list; "u3" is never listed
AssignKeys == (DocIds \cup {NoSuchId}) \X Users    \* the (doc_id, user_id) a row can hold

Null == "<null>"    \* null / undefined / header absent
Throw == "<throw>"  \* a rejected promise leaving the function

\* ------------------------------------------------------------------ state
VARIABLES
    documents,            \* public.documents: a row for each id in its DOMAIN
    document_assignments, \* public.document_assignments: (doc_id, user_id) -> number of rows
    storage,              \* keys of the objects held by the 'documents' bucket
    GEMINI_API_KEY,       \* the function's environment: a credential or Null
    req,                  \* per slot: the request being served and its locals
    lastResp,             \* the response a handler just returned, NoResp once it is sent
    approvedOk,           \* history: (d, u) such that an approve of d listing u returned ok
    approveUpdated        \* history: the rows an approve request's status update changed

data == <<documents, document_assignments, storage>>
history == <<approvedOk, approveUpdated>>
vars == <<data, GEMINI_API_KEY, req, lastResp, history>>

\* ------------------------------------------------------------------ identity
NoUser == [id |-> Null, role |-> Null]

\* supabase.auth.getUser(token): the accounts of the identity provider.
AuthGetUser(token) ==
    CASE token = "tokA" -> [id |-> "a1", role |-> "admin"]
      [] token = "tokE" -> [id |-> "u1", role |-> "employee"]
      [] OTHER -> NoUser

Header(auth, role, id) == [Authorization |-> auth, mockRole |-> role, mockUserId |-> id]

\* The Authorization, x-mock-role and x-mock-user-id headers of the requests served.
Headers ==
    {Header(Null, Null, Null),
     Header("Bearer bad", Null, Null),
     Header("Bearer tokA", Null, Null),
     Header("Bearer tokE", Null, Null),
     Header(Null, "admin", "a1"),
     Header(Null, "employee", "u1"),
     Header(Null, "admin", Null),
     Header("Bearer bad", "admin", "a1"),
     Header("Bearer tokE", "admin", "a1")}

\* authHeader.replace('Bearer ', '')
StripBearer(h) ==
    CASE h = "Bearer bad" -> "bad"
      [] h = "Bearer tokA" -> "tokA"
      [] h = "Bearer tokE" -> "tokE"
      [] OTHER -> h

getAuthUser(h) ==
    IF h.Authorization # Null /\ AuthGetUser(StripBearer(h.Authorization)) # NoUser
    THEN AuthGetUser(StripBearer(h.Authorization))
    ELSE IF h.mockRole # Null /\ h.mockUserId # Null
         THEN [id |-> h.mockUserId, role |-> h.mockRole]
         ELSE NoUser

\* A slip: any identity that carries a role passes.
isAdmin_Mutant(user) == user.role # Null

isAdmin(user) == user.role = "admin"

\* ------------------------------------------------------------------ datastore
DocRows == DOMAIN documents
Exists(d) == d \in DocRows

\* now(): the creation timestamps grow with the rows.
now == Cardinality(DocRows) + 1

\* A slip: the URL names another key than the one the blob was stored under.
PublicUrl_Mutant(path) == <<"public/documents", path + 1>>

\* getPublicUrl(path)
PublicUrl(path) == <<"public/documents", path>>

\* A slip: the row is created already approved.
NewDocument_Mutant(title, url, creator) ==
    [title |-> title, file_url |-> url, parsed_text |-> Null, summary |-> Null,
     status |-> "approved", created_at |-> now, created_by |-> creator]

\* insert({ title, file_url, status: 'pending', created_by }) with the column defaults
NewDocument(title, url, creator) ==
    [title |-> title, file_url |-> url, parsed_text |-> Null, summary |-> Null,
     status |-> "pending", created_at |-> now, created_by |-> creator]

\* select('id,title,file_url,summary,status,created_at'): the columns the callers compare
Row(d) == [id |-> d, status |-> documents[d].status]

\* .order('created_at', { ascending: false })
RECURSIVE OrderDesc(_)
OrderDesc(S) ==
    IF S = {} THEN <<>>
    ELSE LET d == CHOOSE x \in S : \A y \in S : documents[y].created_at <= documents[x].created_at
         IN  <<Row(d)>> \o OrderDesc(S \ {d})

\* A slip: the filter on the status is missing.
SelectByStatus_Mutant(status) == OrderDesc(DocRows)

\* select(...).eq('status', status).order('created_at', { ascending: false })
SelectByStatus(status) == OrderDesc({d \in DocRows : documents[d].status = status})

Ids(rows) == {rows[i].id : i \in 1..Len(rows)}

\* A slip: the update writes the row back as the upload inserted it, with the text.
UpdateText_Mutant(id, text, ok) ==
    IF ok /\ Exists(id)
    THEN [documents EXCEPT ![id] = [@ EXCEPT !.parsed_text = text, !.status = "pending"]]
    ELSE documents

\* update(patch).eq('id', id): the rows with that id take the patch; an error changes nothing.
UpdateText(id, text, ok) ==
    IF ok /\ Exists(id) THEN [documents EXCEPT ![id].parsed_text = text] ELSE documents
UpdateSummary(id, summary, ok) ==
    IF ok /\ Exists(id) THEN [documents EXCEPT ![id].summary = summary] ELSE documents
\* A slip: approving an approved document sets it back.
ToggleStatus_Mutant(id, status) ==
    IF Exists(id)
    THEN [documents EXCEPT ![id].status = IF @ = status THEN "pending" ELSE status]
    ELSE documents

\* A slip: the status update reaches no row.
UpdateStatus_Mutant(id, status) == documents

UpdateStatus(id, status) ==
    IF Exists(id) THEN [documents EXCEPT ![id].status = status] ELSE documents

\* The user ids that have a row for document d.
Assigned(d) == {u \in Users : document_assignments[<<d, u>>] > 0}

\* ------------------------------------------------------------------ requests
\* A request and the locals of its handler. Three of them are history: wasStatus, the
\* status of the document when the approve request arrived; known, the documents an
\* approve that returned ok had assigned to userId when the request arrived; again,
\* whether an approve request with the same id and list ran to its end meanwhile.
Blank ==
    [kind |-> "none", pc |-> "idle", user |-> NoUser, id |-> NoSuchId, userIds |-> <<>>,
     userId |-> Null, title |-> Null, size |-> 0, path |-> 0, parsedText |-> Null, text |-> <<>>,
     up |-> Null, rows |-> <<>>, wasStatus |-> Null, known |-> {}, again |-> FALSE]

NoResp == [req |-> Blank, status |-> 0, cause |-> Null, body |-> <<>>]

\* The runtime takes one returned response at a time.
Running == lastResp = NoResp

\* A request is served in the first free slot.
Idle(s) == Running /\ req[s].pc = "idle" /\ \A t \in 1..(s - 1) : req[t].pc # "idle"

\* A slip: a statement does not wait for the one before it.
At_Mutant(s, kind, pc) == Running /\ req[s].kind = kind

\* Request s, of this kind, is at this statement.
At(s, kind, pc) == Running /\ req[s].kind = kind /\ req[s].pc = pc

\* The handler of request r returns: the slot is free again.
Return(s, r, status, cause, body) ==
    /\ lastResp' = [req |-> r, status |-> status, cause |-> cause, body |-> body]
    /\ req' = [req EXCEPT ![s] = Blank]

\* The handler goes on to its next statement.
Goto(s, r, pc) ==
    /\ req' = [req EXCEPT ![s] = [r EXCEPT !.pc = pc]]
    /\ lastResp' = NoResp

Init ==
    /\ documents = <<>>
    /\ document_assignments = [p \in AssignKeys |-> 0]
    /\ storage = {}
    /\ GEMINI_API_KEY \in {Null, "key"}
    /\ req = [s \in Slots |-> Blank]
    /\ lastResp = NoResp
    /\ approvedOk = {}
    /\ approveUpdated = {}

\* ------------------------------------------------------------------ upload
NoFile == [name |-> Null, size |-> 0]    \* form.get('file') is null
Files == {NoFile} \cup [name : {"report.pdf"}, size : {0, 1}]
Titles == {Null, "Q1 Report"}

\* (form.get('title') as string) || (file?.name ?? 'Untitled')
TitleOf(title, file) ==
    IF title # Null THEN title ELSE IF file # NoFile THEN file.name ELSE "Untitled"

\* parsePdfToText(bytes): the texts pdf.js can yield; '' when it throws or finds none.
ParseOutcomes == {"", "pdf text"}

\* The ways the call to the summarization service can end.
Upstream == {"network error", "not ok", "malformed json", "no candidate", "ok"}

\* summarizeWithGemini(text), `up` being what the service does when called.
summarizeWithGemini(text, up) ==
    IF GEMINI_API_KEY = Null THEN ""
    ELSE CASE up = "network error" -> Throw
           [] up = "not ok" -> ""
           [] up = "malformed json" -> Throw
           [] up = "no candidate" -> ""
           [] OTHER -> "summary"

\* parsedText || `The document is at ${publicUrl.publicUrl}. Summarize based on its content.`
SummarizerInput(parsedText, url) ==
    IF parsedText # "" THEN <<"text", parsedText>> ELSE <<"The document is at", url>>

\* Response.json({ id: doc.id, title, file_url: publicUrl.publicUrl, status: 'pending' })
Confirmation(r) ==
    [id |-> r.id, title |-> r.title, file_url |-> PublicUrl(r.path), status |-> "pending"]

\* Deno.serve routes POST /upload; handleUpload through
\* supabase.storage.from('documents').upload(storagePath, bytes, { upsert: false }).
ReceiveUpload(s) ==
    /\ Idle(s)
    /\ \E h \in Headers :
         LET r == [Blank EXCEPT !.kind = "upload", !.user = getAuthUser(h)] IN
         IF ~isAdmin(r.user) THEN Return(s, r, 403, "forbidden", <<>>) /\ UNCHANGED storage
         ELSE \E file \in Files, title \in Titles :
              IF file = NoFile
              THEN Return(s, r, 400, "file required", <<>>) /\ UNCHANGED storage
              ELSE \/ Return(s, r, 500, "upload error", <<>>) /\ UNCHANGED storage
                   \/ \E key \in BlobKeys \ storage :
                         /\ storage' = storage \cup {key}
                         /\ Goto(s, [r EXCEPT !.title = TitleOf(title, file),
                                               !.size = file.size, !.path = key],
                                 "insert")
    /\ UNCHANGED <<documents, document_assignments, GEMINI_API_KEY, history>>

\* gen_random_uuid(): the ids that no row has; the ids being alike, the least of them.
NewIds == {id \in DocIds \ DocRows : \A e \in DocIds \ DocRows : id <= e}

\* from('documents').insert({...}).select('*').single()
UploadInsert(s) ==
    /\ At(s, "upload", "insert")
    /\ \/ /\ Return(s, req[s], 500, "insert error", <<>>)
          /\ UNCHANGED documents
       \/ \E id \in NewIds :
             /\ documents' = documents @@
                    (id :> NewDocument(req[s].title, PublicUrl(req[s].path), req[s].user.id))
             /\ Goto(s, [req[s] EXCEPT !.id = id], "parse")
    /\ UNCHANGED <<document_assignments, storage, GEMINI_API_KEY, history>>

\* parsePdfToText(bytes), then update({ parsed_text }) whose error is not read.
UploadParse(s) ==
    /\ At(s, "upload", "parse")
    /\ \E text \in ParseOutcomes, ok \in BOOLEAN :
         /\ documents' = UpdateText(req[s].id, text, ok)
         /\ Goto(s, [req[s] EXCEPT !.parsedText = text], "summarize")
    /\ UNCHANGED <<document_assignments, storage, GEMINI_API_KEY, history>>

\* summarizeWithGemini(parsedText || fallback): a rejection is caught by no one and the
\* runtime answers 500; otherwise update({ summary }), whose error is not read, and
\* the confirmation.
UploadSummarize(s) ==
    /\ At(s, "upload", "summarize")
    /\ \E up \in Upstream, ok \in BOOLEAN :
         LET text == SummarizerInput(req[s].parsedText, PublicUrl(req[s].path))
             summary == summarizeWithGemini(text, up)
             r == [req[s] EXCEPT !.text = text,
                                 !.up = IF GEMINI_API_KEY = Null THEN "not called" ELSE up]
         IN  IF summary = Throw
             THEN /\ Return(s, r, 500, "unhandled", <<>>)
                  /\ UNCHANGED documents
             ELSE /\ Return(s, r, 200, Null, <<Confirmation(r)>>)
                  /\ documents' = UpdateSummary(r.id, summary, ok)
    /\ UNCHANGED <<document_assignments, storage, GEMINI_API_KEY, history>>

handleUpload(s) ==
    \/ ReceiveUpload(s)
    \/ UploadInsert(s)
    \/ UploadParse(s)
    \/ UploadSummarize(s)

\* ------------------------------------------------------------------ pending
\* Deno.serve routes GET /pending; handlePending:
\* select(...).in('status', ['pending']).order('created_at', { ascending: false })
handlePending(s) ==
    /\ Idle(s)
    /\ \E h \in Headers :
         LET r == [Blank EXCEPT !.kind = "pending", !.user = getAuthUser(h)] IN
         IF ~isAdmin(r.user) THEN Return(s, r, 403, "forbidden", <<>>)
         ELSE \/ Return(s, r, 500, "select error", <<>>)
              \/ Return(s, r, 200, Null, SelectByStatus("pending"))
    /\ UNCHANGED <<data, GEMINI_API_KEY, history>>

\* ------------------------------------------------------------------ approve
\* body.userIds ?? []
UserIdLists == UNION {[1..n -> Listable] : n \in 0..MaxUserIds}

Pairs(id, userIds) == {<<id, userIds[i]>> : i \in 1..Len(userIds)}

\* unique (doc_id, user_id): a row of the statement meets a stored row or another of its rows.
UniqueViolation(id, userIds) ==
    \/ \E i \in 1..Len(userIds) : document_assignments[<<id, userIds[i]>>] > 0
    \/ \E i, j \in 1..Len(userIds) : i # j /\ userIds[i] = userIds[j]

\* A slip: the table is created without the reference.
ForeignKeyViolation_Mutant(id) == FALSE

\* doc_id references public.documents(id)
ForeignKeyViolation(id) == ~Exists(id)

\* The table after insert(rows): one more row for each element of userIds.
InsertAssignments(id, userIds) ==
    [p \in DOMAIN document_assignments |->
        document_assignments[p] +
            Cardinality({i \in 1..Len(userIds) : p = <<id, userIds[i]>>})]

\* The approve request of slot s ran to its end, the datastore having answered both
\* its statements: it returns, and the requests for the same id and list learn of it.
ReturnRan(s, status, cause) ==
    /\ lastResp' = [req |-> req[s], status |-> status, cause |-> cause, body |-> <<>>]
    /\ req' = [t \in Slots |->
                IF t = s THEN Blank
                ELSE IF /\ req[t].kind = "approve"
                        /\ req[t].id = req[s].id
                        /\ req[t].userIds = req[s].userIds
                     THEN [req[t] EXCEPT !.again = TRUE]
                     ELSE req[t]]

\* Deno.serve routes POST /:id/approve; handleApprove through
\* update({ status: 'approved' }).eq('id', id); with no userIds it returns ok.
ReceiveApprove(s) ==
    /\ Idle(s)
    /\ \E h \in Headers :
         LET q == [Blank EXCEPT !.kind = "approve", !.user = getAuthUser(h)] IN
         IF ~isAdmin(q.user)
         THEN /\ Return(s, q, 403, "forbidden", <<>>)
              /\ UNCHANGED <<documents, approveUpdated>>
         ELSE \E id \in DocRows \cup {NoSuchId}, userIds \in UserIdLists :
              LET r == [q EXCEPT !.id = id, !.userIds = userIds,
                                 !.wasStatus = IF Exists(id) THEN documents[id].status
                                               ELSE Null] IN
              \/ /\ Return(s, r, 500, "update error", <<>>)
                 /\ UNCHANGED <<documents, approveUpdated>>
              \/ /\ documents' = UpdateStatus(id, "approved")
                 /\ approveUpdated' = approveUpdated \cup ({id} \cap DocRows)
                 /\ IF Len(userIds) > 0
                    THEN Goto(s, r, "insert")
                    ELSE Return(s, r, 200, Null, <<>>)
    /\ UNCHANGED <<document_assignments, storage, GEMINI_API_KEY, approvedOk>>

\* from('document_assignments').insert(rows): one statement, all rows or none.
ApproveInsert(s) ==
    /\ At(s, "approve", "insert")
    /\ \/ /\ Return(s, req[s], 500, "insert error", <<>>)
          /\ UNCHANGED <<document_assignments, approvedOk>>
       \/ /\ ForeignKeyViolation(req[s].id)
          /\ Return(s, req[s], 500, "foreign key", <<>>)
          /\ UNCHANGED <<document_assignments, approvedOk>>
       \/ /\ ~ForeignKeyViolation(req[s].id)
          /\ UniqueViolation(req[s].id, req[s].userIds)
          /\ ReturnRan(s, 500, "unique")
          /\ UNCHANGED <<document_assignments, approvedOk>>
       \/ /\ ~ForeignKeyViolation(req[s].id)
          /\ ~UniqueViolation(req[s].id, req[s].userIds)
          /\ document_assignments' = InsertAssignments(req[s].id, req[s].userIds)
          /\ approvedOk' = approvedOk \cup Pairs(req[s].id, req[s].userIds)
          /\ ReturnRan(s, 200, Null)
    /\ UNCHANGED <<documents, storage, GEMINI_API_KEY, approveUpdated>>

handleApprove(s) ==
    \/ ReceiveApprove(s)
    \/ ApproveInsert(s)

\* ------------------------------------------------------------------ approved for user
\* Deno.serve routes GET /approved/:userId for any caller; handleApprovedForUser through
\* select(...).eq('status', 'approved').order('created_at', { ascending: false })
ReceiveApprovedForUser(s) ==
    /\ Idle(s)
    /\ \E h \in Headers, userId \in Users :
         LET r == [Blank EXCEPT !.kind = "approved", !.user = getAuthUser(h),
                                !.userId = userId,
                                !.known = {d \in DocIds : <<d, userId>> \in approvedOk}] IN
         \/ Return(s, r, 500, "select error", <<>>)
         \/ Goto(s, [r EXCEPT !.rows = SelectByStatus("approved")], "assignments")
    /\ UNCHANGED <<data, GEMINI_API_KEY, history>>

\* select('doc_id,user_id').eq('user_id', userId): the doc_ids, none when the select fails.
Allowed(userId, ok) ==
    IF ok THEN {d \in DocIds : document_assignments[<<d, userId>>] > 0} ELSE {}

\* (data ?? []).filter((d) => allowed.has(d.id))
Filtered(rows, allowed) == SelectSeq(rows, LAMBDA r : r.id \in allowed)

ApprovedFilter(s) ==
    /\ At(s, "approved", "assignments")
    /\ \E ok \in BOOLEAN :
         Return(s, req[s], 200, IF ok THEN Null ELSE "assignments unread",
                Filtered(req[s].rows, Allowed(req[s].userId, ok)))
    /\ UNCHANGED <<data, GEMINI_API_KEY, history>>

handleApprovedForUser(s) ==
    \/ ReceiveApprovedForUser(s)
    \/ ApprovedFilter(s)

\* ------------------------------------------------------------------ specification
\* Deno.serve sends the response the handler returned.
Send ==
    /\ lastResp # NoResp
    /\ lastResp' = NoResp
    /\ UNCHANGED <<data, GEMINI_API_KEY, req, history>>

Next ==
    \/ \E s \in Slots :
          \/ handleUpload(s)
          \/ handlePending(s)
          \/ handleApprove(s)
          \/ handleApprovedForUser(s)
    \/ Send

Spec == Init /\ [][Next]_vars

\* ------------------------------------------------------------------ a table with a row
\* The function starts on a datastore that already holds the row and the blob of an
\* earlier upload, whose text and summary were written, written empty or not written,
\* and which an admin may have approved and assigned.
EarlierBlob == MaxBlobs + 1

EarlierRows ==
    {[title |-> "Q1 Report", file_url |-> PublicUrl(EarlierBlob), parsed_text |-> t[1],
      summary |-> t[2], status |-> status, created_at |-> 1, created_by |-> "a1"] :
        t \in {<<Null, Null>>, <<"", "">>, <<"pdf text", "summary">>},
        status \in {"pending", "approved"}}

InitRows ==
    /\ \E row \in EarlierRows : documents = (1 :> row)
    /\ \E A \in SUBSET {"u1"} :
          /\ A # {} => documents[1].status = "approved"
          /\ document_assignments =
                [p \in AssignKeys |-> IF p[1] = 1 /\ p[2] \in A THEN 1 ELSE 0]
          /\ approvedOk = {1} \X A
    /\ approveUpdated = {d \in DOMAIN documents : documents[d].status = "approved"}
    /\ storage = {EarlierBlob}
    /\ GEMINI_API_KEY \in {Null, "key"}
    /\ req = [s \in Slots |-> Blank]
    /\ lastResp = NoResp

\* One request is served after the other, except that the pending list is also polled
\* while a request is being served.
NextRows ==
    \/ handleUpload(1)
    \/ handlePending(1)
    \/ handlePending(2)
    \/ handleApprove(1)
    \/ handleApprovedForUser(1)
    \/ Send

SpecRows == InitRows /\ [][NextRows]_vars

\* ------------------------------------------------------------------ an upload past its insert
\* The function has the row of an earlier upload and is serving an upload that has
\* just created its row, which an admin may already have approved and assigned.
Uploaded ==
    [Blank EXCEPT !.kind = "upload", !.pc = "parse", !.user = AuthGetUser("tokA"),
                  !.id = 2, !.title = "report.pdf", !.size = 1, !.path = 1]

InitFrame ==
    /\ \E row \in EarlierRows, status \in {"pending", "approved"} :
          documents = (1 :> row) @@
                      (2 :> [title |-> Uploaded.title, file_url |-> PublicUrl(Uploaded.path),
                             parsed_text |-> Null, summary |-> Null, status |-> status,
                             created_at |-> 2, created_by |-> Uploaded.user.id])
    /\ \E A, B \in SUBSET {"u1"} :
          /\ A # {} => documents[1].status = "approved"
          /\ B # {} => documents[2].status = "approved"
          /\ document_assignments =
                [p \in AssignKeys |-> IF \/ p[1] = 1 /\ p[2] \in A
                                         \/ p[1] = 2 /\ p[2] \in B THEN 1 ELSE 0]
          /\ approvedOk = ({1} \X A) \cup ({2} \X B)
    /\ approveUpdated = {d \in DOMAIN documents : documents[d].status = "approved"}
    /\ storage = {EarlierBlob, Uploaded.path}
    /\ GEMINI_API_KEY \in {Null, "key"}
    /\ req = [s \in Slots |-> IF s = 1 THEN Uploaded ELSE Blank]
    /\ lastResp = NoResp

\* The upload goes on to its end while approve requests are served beside it.
NextFrame ==
    \/ UploadParse(1)
    \/ UploadSummarize(1)
    \/ handleApprove(2)
    \/ Send

SpecFrame == InitFrame /\ [][NextFrame]_vars

\* ------------------------------------------------------------------ properties
\* The request just answered, and how.
Answered(kind) == lastResp.req.kind = kind /\ lastResp.status # 0
AnsweredId == lastResp.req.id
AdminOnly == {"upload", "pending", "approve"}

\* C1: a request to POST /upload, GET /pending or POST /{id}/approve whose resolved
\* identity is not admin (anonymous, a token user without the admin role, mock headers
\* with another role) is answered 403 in a step that leaves the blobs, the document rows
\* and the assignment rows as they were, and no such request is ever past the gate.
C1_NonAdminForbidden ==
    [][/\ \A s \in Slots : req'[s].kind \in AdminOnly => req'[s].user.role = "admin"
       /\ (lastResp'.req.kind \in AdminOnly /\ lastResp'.req.user.role # "admin")
            => (lastResp'.status = 403 /\ UNCHANGED data)]_vars

\* An employee's approve request was just refused while a document exists.
C1_Witness ==
    /\ Answered("approve") /\ lastResp.status = 403
    /\ lastResp.req.user.role = "employee"
    /\ DocRows # {}

\* The upload just returned its confirmation.
UploadOk == Answered("upload") /\ lastResp.status = 200
ReturnedId == lastResp.body[1].id

\* C2 as stated: when an upload returns its confirmation, the row with the returned id
\* exists and is pending, whatever was interleaved with the upload.
C2_PendingAtReturn ==
    UploadOk => (Exists(ReturnedId) /\ documents[ReturnedId].status = "pending")

\* C2, amended: when an upload returns its confirmation, the row with the returned id
\* exists, whatever extraction and summarization yielded; it is pending unless an
\* approve request updated the status of that row before the upload returned, and
\* then it is approved.
C2_RowAtReturn ==
    UploadOk =>
        /\ Exists(ReturnedId)
        /\ documents[ReturnedId].status =
              IF ReturnedId \in approveUpdated THEN "approved" ELSE "pending"

\* An upload returns its confirmation for a row that an approve request, served
\* meanwhile, has already approved.
C2_Witness ==
    /\ UploadOk
    /\ ReturnedId \in approveUpdated
    /\ documents[ReturnedId].status = "approved"

\* The visibility query just returned a list.
ListedFor(userId) ==
    Answered("approved") /\ lastResp.status = 200 /\ lastResp.req.userId = userId

\* The documents that are approved and assigned to user u.
VisibleTo(u) == {d \in DocRows : documents[d].status = "approved" /\ u \in Assigned(d)}

\* C3: once an approve of d listing u returned ok, every visibility query for u that
\* arrives later and returns a list has d in it with status approved; a query for a
\* user that no approve request lists returns no document.
C3_RoundTrip ==
    \A u \in Users :
        ListedFor(u) =>
            /\ \A d \in lastResp.req.known :
                  \E i \in 1..Len(lastResp.body) :
                     lastResp.body[i].id = d /\ lastResp.body[i].status = "approved"
            /\ u \notin Listable => lastResp.body = <<>>

\* C4: a visibility query for u returns exactly the documents that are approved and
\* assigned to u. Stated for the queries during which no document changed status, so
\* that the list is compared with the rows it was read from.
C4_ExactlyVisible ==
    \A u \in Users :
        (ListedFor(u) /\ lastResp.req.rows = SelectByStatus("approved"))
            => Ids(lastResp.body) = VisibleTo(u)

\* C5: whatever userId the path names, the documents a caller is given are among the
\* approved documents assigned to the caller's own identity; an anonymous caller is
\* given none.
C5_OwnDocumentsOnly ==
    \A u \in Users :
        ListedFor(u) =>
            Ids(lastResp.body) \subseteq
                {d \in DocRows : documents[d].status = "approved"
                                 /\ lastResp.req.user.id \in Assigned(d)}

\* The approve request just answered got an answer of the datastore to each statement.
ApproveRan ==
    /\ Answered("approve")
    /\ lastResp.status # 403
    /\ lastResp.cause \notin {"update error", "insert error"}

\* C6: the table holds at most one row per (document, user), and once two approve
\* requests for the same document and the same list have both run, it holds exactly
\* one row for each listed user.
C6_OneRowPerPair ==
    /\ \A p \in DOMAIN document_assignments : document_assignments[p] <= 1
    /\ (ApproveRan /\ lastResp.req.again /\ Exists(AnsweredId))
         => \A i \in 1..Len(lastResp.req.userIds) :
               document_assignments[<<AnsweredId, lastResp.req.userIds[i]>>] = 1

\* The list names no user twice.
NoRepeat(userIds) ==
    \A i, j \in 1..Len(userIds) : userIds[i] = userIds[j] => i = j

\* C7: an admin's approve of a document that was already approved returns ok, whatever
\* its list (a list of users already assigned to the document included), and the
\* document stays approved. Stated for the lists that name no user twice.
C7_ReapproveOk ==
    (ApproveRan /\ lastResp.req.wasStatus = "approved" /\ NoRepeat(lastResp.req.userIds))
        => (lastResp.status = 200 /\ documents[AnsweredId].status = "approved")

\* C8: in an approve request with a non-empty list the status update comes before the
\* insertion: while the insertion is pending the document is approved; and when the
\* insertion fails the request reports 500, the table of assignments is as it was and
\* the document is still approved.
C8_ApprovedButUnassigned ==
    /\ [](\A s \in Slots :
            (req[s].kind = "approve" /\ req[s].pc = "insert" /\ Exists(req[s].id))
                => documents[req[s].id].status = "approved")
    /\ [][\A s \in Slots :
            (req[s].kind = "approve" /\ req[s].pc = "insert" /\ req'[s].pc = "idle"
             /\ lastResp'.status # 200)
                => /\ lastResp'.status = 500
                   /\ UNCHANGED document_assignments
                   /\ Exists(req[s].id) => documents'[req[s].id].status = "approved"]_vars

\* An approve request failed at its insertion and left the document approved with no
\* assignment.
C8_Witness ==
    /\ Answered("approve") /\ lastResp.status = 500 /\ lastResp.cause = "insert error"
    /\ Exists(AnsweredId)
    /\ documents[AnsweredId].status = "approved"
    /\ Assigned(AnsweredId) = {}

\* C9: in an upload whose blob and row were created and whose extraction yielded the
\* empty string, the summarizer is called with the description that names the file
\* URL, and the upload returns its confirmation.
C9_FallbackThenSuccess ==
    (Answered("upload") /\ lastResp.req.parsedText = "")
        => /\ lastResp.req.text = <<"The document is at", PublicUrl(lastResp.req.path)>>
           /\ lastResp.status = 200

\* The summarization of the upload just answered failed.
SummarizationFailed ==
    /\ Answered("upload")
    /\ lastResp.req.up \in {"not called", "network error", "not ok", "malformed json",
                            "no candidate"}

\* C10: however the summarization fails (no credential, a non-success response, a
\* failed or malformed call), the upload returns its confirmation and the summary of
\* the row is empty (the empty string, or unwritten when its update was refused).
C10_SummaryFailureAbsorbed ==
    SummarizationFailed
        => /\ lastResp.status = 200
           /\ documents[AnsweredId].summary \in {"", Null}

\* The storage key that a file URL names.
KeyOf(url) == url[2]

\* C11: an upload whose blob write fails is answered 500 in a step that creates no
\* document row and stores no blob, and that ends the request; and in every state each
\* document row carries the URL of a blob that the blob store holds.
C11_NoOrphanedMetadata ==
    /\ [](\A d \in DocRows : KeyOf(documents[d].file_url) \in storage)
    /\ [][lastResp'.cause = "upload error"
            => /\ lastResp'.status = 500
               /\ UNCHANGED <<documents, storage>>
               /\ \A s \in Slots : req'[s].kind = "upload" => req[s].kind = "upload"]_vars

\* An upload was just refused for a storage error while a document of an earlier upload
\* exists, with its blob.
C11_Witness ==
    /\ Answered("upload") /\ lastResp.status = 500 /\ lastResp.cause = "upload error"
    /\ \E d \in DocRows : KeyOf(documents[d].file_url) \in storage

\* C12: an admin's upload that carries no file, or a file of zero length, is answered
\* 400 in a step that changes no data, so that no upload is ever past its validation
\* (blob stored, row to be created, text to be extracted) without a non-empty file.
C12_EmptyFileRejected ==
    /\ [](\A s \in Slots :
            (req[s].kind = "upload" /\ req[s].pc # "idle") => req[s].size > 0)
    /\ [][lastResp'.cause = "file required"
            => (lastResp'.status = 400 /\ UNCHANGED data)]_vars

\* The pending list was just returned.
PendingOk == Answered("pending") /\ lastResp.status = 200
Pending == {d \in DocRows : documents[d].status = "pending"}

\* C13: the list that GET /pending returns to an admin holds exactly the documents whose
\* status is pending, each once, the later created first; a document whose text and
\* summary are empty or not yet written is in it as long as it is pending.
C13_PendingExact ==
    PendingOk =>
        /\ Ids(lastResp.body) = Pending
        /\ Len(lastResp.body) = Cardinality(Pending)
        /\ \A i \in 1..Len(lastResp.body) : lastResp.body[i].status = "pending"
        /\ \A i, j \in 1..Len(lastResp.body) :
              i < j => documents[lastResp.body[i].id].created_at
                          >= documents[lastResp.body[j].id].created_at

\* The pending list was returned while an upload has created its row and written neither
\* text nor summary: the list holds that row first and the earlier row after it.
C13_Witness ==
    /\ PendingOk
    /\ Len(lastResp.body) = 2
    /\ \E s \in Slots :
          /\ req[s].kind = "upload" /\ req[s].pc = "parse"
          /\ lastResp.body[1].id = req[s].id
          /\ documents[req[s].id].parsed_text = Null
          /\ documents[req[s].id].summary = Null

\* How far an upload is: received, blob stored, row created, text update issued.
Stage(pc) ==
    CASE pc = "idle" -> 0
      [] pc = "insert" -> 1
      [] pc = "parse" -> 2
      [] pc = "summarize" -> 3

\* Request s is an upload in service.
Uploading(s) == req[s].kind = "upload" /\ req[s].pc # "idle"

\* C14: an upload moves one stage forward at a time or ends: it holds a stored blob
\* before its row is created, its row exists before the text update is issued, the
\* text update is issued before the summarizer is called and the summary update
\* issued, and the confirmation is returned only by the step of the summary update; the
\* row, the text and the summary of a document are written only by these steps.
C14_ForwardOnly ==
    [][/\ \A s \in Slots :
            /\ (Uploading(s) /\ req'[s] # req[s])
                  => \/ req'[s] = Blank
                     \/ /\ req'[s].kind = "upload"
                        /\ Stage(req'[s].pc) = Stage(req[s].pc) + 1
            /\ (~Uploading(s) /\ req'[s].kind = "upload")
                  => (req[s].pc = "idle" /\ req'[s].pc = "insert")
            /\ (req'[s].kind = "upload" /\ Stage(req'[s].pc) >= 1) => req'[s].path \in storage'
            /\ (req'[s].kind = "upload" /\ Stage(req'[s].pc) >= 2) => req'[s].id \in DocRows'
       /\ (lastResp'.req.kind = "upload" /\ lastResp'.status = 200)
            => \E s \in Slots : Uploading(s) /\ req[s].pc = "summarize" /\ req'[s] = Blank
       /\ DocRows' # DocRows
            => \E s \in Slots : Uploading(s) /\ req[s].pc = "insert" /\ req'[s].pc = "parse"
       /\ \A d \in DocRows :
            /\ documents'[d].parsed_text # documents[d].parsed_text
                  => \E s \in Slots : /\ Uploading(s) /\ req[s].id = d
                                       /\ req[s].pc = "parse" /\ req'[s].pc = "summarize"
            /\ documents'[d].summary # documents[d].summary
                  => \E s \in Slots : /\ Uploading(s) /\ req[s].id = d
                                       /\ req[s].pc = "summarize" /\ req'[s] = Blank]_vars

\* An upload has just returned its confirmation, text and summary written.
C14_Witness ==
    /\ UploadOk
    /\ documents[ReturnedId].parsed_text = "pdf text"
    /\ documents[ReturnedId].summary = "summary"
    /\ documents[ReturnedId].status = "pending"

\* The assignment rows: the (document, user) that have one.
Rows == {p \in DOMAIN document_assignments : document_assignments[p] > 0}

\* C15: in every state each assignment row refers to an existing document whose status
\* is approved; assignment rows are created only by the insertion of an admin's approve
\* request, for its id and the users of its list, its status update done; and the
\* step that answers an approve request naming an id that no document has leaves the
\* documents and the assignments as they were.
C15_AssignedImpliesApproved ==
    /\ [](\A p \in Rows : Exists(p[1]) /\ documents[p[1]].status = "approved")
    /\ [][/\ document_assignments' # document_assignments
               => \E s \in Slots :
                     /\ req[s].kind = "approve" /\ req[s].pc = "insert"
                     /\ req[s].user.role = "admin"
                     /\ req[s].id \in approveUpdated
                     /\ \A p \in DOMAIN document_assignments :
                           document_assignments'[p] # document_assignments[p]
                              => p \in Pairs(req[s].id, req[s].userIds)
          /\ (lastResp'.req.kind = "approve" /\ ~Exists(lastResp'.req.id))
               => UNCHANGED <<documents, document_assignments>>]_vars

\* An approve request that named an id that no document has, with a list, was just
\* answered, while a document is approved and assigned.
C15_Witness ==
    /\ Answered("approve") /\ lastResp.req.user.role = "admin"
    /\ ~Exists(AnsweredId) /\ Len(lastResp.req.userIds) > 0
    /\ \E d \in DocRows : Assigned(d) # {}

\* This step is the status update of an admin's approve request on document d.
ApproveUpdates(d) ==
    \E s \in Slots :
        /\ req[s].pc = "idle"
        /\ LET r == IF req'[s].kind = "approve" THEN req'[s] ELSE lastResp'.req
           IN  r.kind = "approve" /\ r.id = d /\ r.user.role = "admin"

\* C16: on every step, no document row and no assignment row is deleted, a new row is
\* pending, the status of a row changes only from pending to approved and only by the
\* status update of an admin's approve request on it, and the documents visible to a
\* user stay visible to that user.
C16_MonotoneLifecycle ==
    [][/\ DocRows \subseteq DocRows'
       /\ \A d \in DocRows' \ DocRows : documents'[d].status = "pending"
       /\ \A d \in DocRows :
             documents'[d].status # documents[d].status
                => /\ documents[d].status = "pending"
                   /\ documents'[d].status = "approved"
                   /\ ApproveUpdates(d)
       /\ \A p \in DOMAIN document_assignments :
             document_assignments'[p] >= document_assignments[p]
       /\ \A u \in Users : VisibleTo(u) \subseteq VisibleTo(u)']_vars

\* An admin has just approved again, with success, a document that was approved and
\* visible to a user, and it still is.
C16_Witness ==
    /\ Answered("approve") /\ lastResp.status = 200
    /\ lastResp.req.wasStatus = "approved"
    /\ AnsweredId \in VisibleTo("u1")

\* Request s is an upload about to issue the update that its statement pc stands for.
Updating(s, pc) == Uploading(s) /\ req[s].pc = pc

\* C17: the step of an upload that issues its text update changes at most the extracted
\* text of the uploaded document, and the step that issues its summary update at most
\* its summary: status, title, file URL and the other fields of the row, every other
\* row, the assignments and the blobs are as they were; and when the upload returns its
\* confirmation, a document that an approve request updated meanwhile is approved and
\* has the assignments that approve requests answered ok recorded for it.
C17_PartialUpdates ==
    /\ [][\A s \in Slots :
            /\ (Updating(s, "parse") /\ req'[s] # req[s])
                 => /\ documents' = [documents EXCEPT ![req[s].id].parsed_text =
                                                       documents'[req[s].id].parsed_text]
                    /\ UNCHANGED <<document_assignments, storage>>
            /\ (Updating(s, "summarize") /\ req'[s] # req[s])
                 => /\ documents' = [documents EXCEPT ![req[s].id].summary =
                                                       documents'[req[s].id].summary]
                    /\ UNCHANGED <<document_assignments, storage>>]_vars
    /\ [](UploadOk =>
            /\ ReturnedId \in approveUpdated => documents[ReturnedId].status = "approved"
            /\ \A u \in Users : <<ReturnedId, u>> \in approvedOk => u \in Assigned(ReturnedId))

\* An upload wrote its text and its summary and returned its confirmation for a document
\* approved and assigned before these updates, beside the row of an earlier upload.
C17_Witness ==
    /\ UploadOk
    /\ ReturnedId \in approveUpdated
    /\ Assigned(ReturnedId) # {}
    /\ documents[ReturnedId].parsed_text = "pdf text"
    /\ documents[ReturnedId].summary = "summary"
    /\ DocRows \ {ReturnedId} # {}

====
